---- MODULE Spec2Model ----
(***************************************************************************)
(* Model of tools/auto_fill_l10n.py: one run of main over a localization   *)
(* map (file path -> {original string -> translated string}).              *)
(*                                                                         *)
(* A Python str is modelled as the sequence of its code points, each an    *)
(* integer.  Chars(<<"O","K">>) writes a string of printable ASCII         *)
(* characters by its characters; other strings are written by their code   *)
(* points.                                                                 *)
(***************************************************************************)
EXTENDS Integers, Sequences, FiniteSets

----------------------------------------------------------------------------
(* Characters and the character classes of the regular expressions and of  *)
(* the str methods.                                                        *)

\* The printable ASCII characters in code point order, from U+0020 on (the
\* grave accent, which a string cannot hold, by its name).
Printable ==
    << " ","!","\"","#","$","%","&","'","(",")","*","+",",","-",".","/",
       "0","1","2","3","4","5","6","7","8","9",":",";","<","=",">","?",
       "@","A","B","C","D","E","F","G","H","I","J","K","L","M","N","O",
       "P","Q","R","S","T","U","V","W","X","Y","Z","[","\\","]","^","_",
       "U+0060","a","b","c","d","e","f","g","h","i","j","k","l","m","n","o",
       "p","q","r","s","t","u","v","w","x","y","z","{","|","}","~" >>

\* ord(c) of a printable ASCII character.
Ord(c) == 31 + (CHOOSE i \in 1..Len(Printable) : Printable[i] = c)

\* The str made of the printable ASCII characters listed.
Chars(s) == [i \in 1..Len(s) |-> Ord(s[i])]

\* The characters the code names one by one.
LF == 10

SPACE == Ord(" ")

UNDERSCORE == Ord("_")

DOT == Ord(".")

LBRACE == Ord("{")

RBRACE == Ord("}")

PERCENT == Ord("%")

DOLLAR == Ord("$")

\* [a-z], [A-Z], [0-9] and [A-Za-z]: ASCII only.
Lower == Ord("a")..Ord("z")

Upper == Ord("A")..Ord("Z")

AsciiDigit == Ord("0")..Ord("9")

AsciiLetter == Lower \cup Upper

\* The range U+4E00..U+9FFF tested at line 257.
CJK == 19968..40959

\* The code points a..b of every pair <<a, b>> of a table.
InRanges(table) == UNION { table[i][1]..table[i][2] : i \in 1..Len(table) }

\* \d for a str pattern: the decimal digits of Unicode (category Nd,
\* Unicode 14.0), as ranges of code points.
DigitRanges ==
    << <<48,57>>, <<1632,1641>>, <<1776,1785>>, <<1984,1993>>, <<2406,2415>>, <<2534,2543>>,
       <<2662,2671>>, <<2790,2799>>, <<2918,2927>>, <<3046,3055>>, <<3174,3183>>, <<3302,3311>>,
       <<3430,3439>>, <<3558,3567>>, <<3664,3673>>, <<3792,3801>>, <<3872,3881>>, <<4160,4169>>,
       <<4240,4249>>, <<6112,6121>>, <<6160,6169>>, <<6470,6479>>, <<6608,6617>>, <<6784,6793>>,
       <<6800,6809>>, <<6992,7001>>, <<7088,7097>>, <<7232,7241>>, <<7248,7257>>, <<42528,42537>>,
       <<43216,43225>>, <<43264,43273>>, <<43472,43481>>, <<43504,43513>>, <<43600,43609>>, <<44016,44025>>,
       <<65296,65305>>, <<66720,66729>>, <<68912,68921>>, <<69734,69743>>, <<69872,69881>>, <<69942,69951>>,
       <<70096,70105>>, <<70384,70393>>, <<70736,70745>>, <<70864,70873>>, <<71248,71257>>, <<71360,71369>>,
       <<71472,71481>>, <<71904,71913>>, <<72016,72025>>, <<72784,72793>>, <<73040,73049>>, <<73120,73129>>,
       <<92768,92777>>, <<92864,92873>>, <<93008,93017>>, <<120782,120831>>, <<123200,123209>>, <<123632,123641>>,
       <<125264,125273>>, <<130032,130041>> >>

Digit == InRanges(DigitRanges)

\* \w for a str pattern: the alphanumerics of Unicode 14.0 (str.isalnum)
\* and the underscore, as ranges of code points.
WordRanges ==
    << <<48,57>>, <<65,90>>, <<95,95>>, <<97,122>>, <<170,170>>, <<178,179>>,
       <<181,181>>, <<185,186>>, <<188,190>>, <<192,214>>, <<216,246>>, <<248,705>>,
       <<710,721>>, <<736,740>>, <<748,748>>, <<750,750>>, <<880,884>>, <<886,887>>,
       <<890,893>>, <<895,895>>, <<902,902>>, <<904,906>>, <<908,908>>, <<910,929>>,
       <<931,1013>>, <<1015,1153>>, <<1162,1327>>, <<1329,1366>>, <<1369,1369>>, <<1376,1416>>,
       <<1488,1514>>, <<1519,1522>>, <<1568,1610>>, <<1632,1641>>, <<1646,1647>>, <<1649,1747>>,
       <<1749,1749>>, <<1765,1766>>, <<1774,1788>>, <<1791,1791>>, <<1808,1808>>, <<1810,1839>>,
       <<1869,1957>>, <<1969,1969>>, <<1984,2026>>, <<2036,2037>>, <<2042,2042>>, <<2048,2069>>,
       <<2074,2074>>, <<2084,2084>>, <<2088,2088>>, <<2112,2136>>, <<2144,2154>>, <<2160,2183>>,
       <<2185,2190>>, <<2208,2249>>, <<2308,2361>>, <<2365,2365>>, <<2384,2384>>, <<2392,2401>>,
       <<2406,2415>>, <<2417,2432>>, <<2437,2444>>, <<2447,2448>>, <<2451,2472>>, <<2474,2480>>,
       <<2482,2482>>, <<2486,2489>>, <<2493,2493>>, <<2510,2510>>, <<2524,2525>>, <<2527,2529>>,
       <<2534,2545>>, <<2548,2553>>, <<2556,2556>>, <<2565,2570>>, <<2575,2576>>, <<2579,2600>>,
       <<2602,2608>>, <<2610,2611>>, <<2613,2614>>, <<2616,2617>>, <<2649,2652>>, <<2654,2654>>,
       <<2662,2671>>, <<2674,2676>>, <<2693,2701>>, <<2703,2705>>, <<2707,2728>>, <<2730,2736>>,
       <<2738,2739>>, <<2741,2745>>, <<2749,2749>>, <<2768,2768>>, <<2784,2785>>, <<2790,2799>>,
       <<2809,2809>>, <<2821,2828>>, <<2831,2832>>, <<2835,2856>>, <<2858,2864>>, <<2866,2867>>,
       <<2869,2873>>, <<2877,2877>>, <<2908,2909>>, <<2911,2913>>, <<2918,2927>>, <<2929,2935>>,
       <<2947,2947>>, <<2949,2954>>, <<2958,2960>>, <<2962,2965>>, <<2969,2970>>, <<2972,2972>>,
       <<2974,2975>>, <<2979,2980>>, <<2984,2986>>, <<2990,3001>>, <<3024,3024>>, <<3046,3058>>,
       <<3077,3084>>, <<3086,3088>>, <<3090,3112>>, <<3114,3129>>, <<3133,3133>>, <<3160,3162>>,
       <<3165,3165>>, <<3168,3169>>, <<3174,3183>>, <<3192,3198>>, <<3200,3200>>, <<3205,3212>>,
       <<3214,3216>>, <<3218,3240>>, <<3242,3251>>, <<3253,3257>>, <<3261,3261>>, <<3293,3294>>,
       <<3296,3297>>, <<3302,3311>>, <<3313,3314>>, <<3332,3340>>, <<3342,3344>>, <<3346,3386>>,
       <<3389,3389>>, <<3406,3406>>, <<3412,3414>>, <<3416,3425>>, <<3430,3448>>, <<3450,3455>>,
       <<3461,3478>>, <<3482,3505>>, <<3507,3515>>, <<3517,3517>>, <<3520,3526>>, <<3558,3567>>,
       <<3585,3632>>, <<3634,3635>>, <<3648,3654>>, <<3664,3673>>, <<3713,3714>>, <<3716,3716>>,
       <<3718,3722>>, <<3724,3747>>, <<3749,3749>>, <<3751,3760>>, <<3762,3763>>, <<3773,3773>>,
       <<3776,3780>>, <<3782,3782>>, <<3792,3801>>, <<3804,3807>>, <<3840,3840>>, <<3872,3891>>,
       <<3904,3911>>, <<3913,3948>>, <<3976,3980>>, <<4096,4138>>, <<4159,4169>>, <<4176,4181>>,
       <<4186,4189>>, <<4193,4193>>, <<4197,4198>>, <<4206,4208>>, <<4213,4225>>, <<4238,4238>>,
       <<4240,4249>>, <<4256,4293>>, <<4295,4295>>, <<4301,4301>>, <<4304,4346>>, <<4348,4680>>,
       <<4682,4685>>, <<4688,4694>>, <<4696,4696>>, <<4698,4701>>, <<4704,4744>>, <<4746,4749>>,
       <<4752,4784>>, <<4786,4789>>, <<4792,4798>>, <<4800,4800>>, <<4802,4805>>, <<4808,4822>>,
       <<4824,4880>>, <<4882,4885>>, <<4888,4954>>, <<4969,4988>>, <<4992,5007>>, <<5024,5109>>,
       <<5112,5117>>, <<5121,5740>>, <<5743,5759>>, <<5761,5786>>, <<5792,5866>>, <<5870,5880>>,
       <<5888,5905>>, <<5919,5937>>, <<5952,5969>>, <<5984,5996>>, <<5998,6000>>, <<6016,6067>>,
       <<6103,6103>>, <<6108,6108>>, <<6112,6121>>, <<6128,6137>>, <<6160,6169>>, <<6176,6264>>,
       <<6272,6276>>, <<6279,6312>>, <<6314,6314>>, <<6320,6389>>, <<6400,6430>>, <<6470,6509>>,
       <<6512,6516>>, <<6528,6571>>, <<6576,6601>>, <<6608,6618>>, <<6656,6678>>, <<6688,6740>>,
       <<6784,6793>>, <<6800,6809>>, <<6823,6823>>, <<6917,6963>>, <<6981,6988>>, <<6992,7001>>,
       <<7043,7072>>, <<7086,7141>>, <<7168,7203>>, <<7232,7241>>, <<7245,7293>>, <<7296,7304>>,
       <<7312,7354>>, <<7357,7359>>, <<7401,7404>>, <<7406,7411>>, <<7413,7414>>, <<7418,7418>>,
       <<7424,7615>>, <<7680,7957>>, <<7960,7965>>, <<7968,8005>>, <<8008,8013>>, <<8016,8023>>,
       <<8025,8025>>, <<8027,8027>>, <<8029,8029>>, <<8031,8061>>, <<8064,8116>>, <<8118,8124>>,
       <<8126,8126>>, <<8130,8132>>, <<8134,8140>>, <<8144,8147>>, <<8150,8155>>, <<8160,8172>>,
       <<8178,8180>>, <<8182,8188>>, <<8304,8305>>, <<8308,8313>>, <<8319,8329>>, <<8336,8348>>,
       <<8450,8450>>, <<8455,8455>>, <<8458,8467>>, <<8469,8469>>, <<8473,8477>>, <<8484,8484>>,
       <<8486,8486>>, <<8488,8488>>, <<8490,8493>>, <<8495,8505>>, <<8508,8511>>, <<8517,8521>>,
       <<8526,8526>>, <<8528,8585>>, <<9312,9371>>, <<9450,9471>>, <<10102,10131>>, <<11264,11492>>,
       <<11499,11502>>, <<11506,11507>>, <<11517,11517>>, <<11520,11557>>, <<11559,11559>>, <<11565,11565>>,
       <<11568,11623>>, <<11631,11631>>, <<11648,11670>>, <<11680,11686>>, <<11688,11694>>, <<11696,11702>>,
       <<11704,11710>>, <<11712,11718>>, <<11720,11726>>, <<11728,11734>>, <<11736,11742>>, <<11823,11823>>,
       <<12293,12295>>, <<12321,12329>>, <<12337,12341>>, <<12344,12348>>, <<12353,12438>>, <<12445,12447>>,
       <<12449,12538>>, <<12540,12543>>, <<12549,12591>>, <<12593,12686>>, <<12690,12693>>, <<12704,12735>>,
       <<12784,12799>>, <<12832,12841>>, <<12872,12879>>, <<12881,12895>>, <<12928,12937>>, <<12977,12991>>,
       <<13312,19903>>, <<19968,42124>>, <<42192,42237>>, <<42240,42508>>, <<42512,42539>>, <<42560,42606>>,
       <<42623,42653>>, <<42656,42735>>, <<42775,42783>>, <<42786,42888>>, <<42891,42954>>, <<42960,42961>>,
       <<42963,42963>>, <<42965,42969>>, <<42994,43009>>, <<43011,43013>>, <<43015,43018>>, <<43020,43042>>,
       <<43056,43061>>, <<43072,43123>>, <<43138,43187>>, <<43216,43225>>, <<43250,43255>>, <<43259,43259>>,
       <<43261,43262>>, <<43264,43301>>, <<43312,43334>>, <<43360,43388>>, <<43396,43442>>, <<43471,43481>>,
       <<43488,43492>>, <<43494,43518>>, <<43520,43560>>, <<43584,43586>>, <<43588,43595>>, <<43600,43609>>,
       <<43616,43638>>, <<43642,43642>>, <<43646,43695>>, <<43697,43697>>, <<43701,43702>>, <<43705,43709>>,
       <<43712,43712>>, <<43714,43714>>, <<43739,43741>>, <<43744,43754>>, <<43762,43764>>, <<43777,43782>>,
       <<43785,43790>>, <<43793,43798>>, <<43808,43814>>, <<43816,43822>>, <<43824,43866>>, <<43868,43881>>,
       <<43888,44002>>, <<44016,44025>>, <<44032,55203>>, <<55216,55238>>, <<55243,55291>>, <<63744,64109>>,
       <<64112,64217>>, <<64256,64262>>, <<64275,64279>>, <<64285,64285>>, <<64287,64296>>, <<64298,64310>>,
       <<64312,64316>>, <<64318,64318>>, <<64320,64321>>, <<64323,64324>>, <<64326,64433>>, <<64467,64829>>,
       <<64848,64911>>, <<64914,64967>>, <<65008,65019>>, <<65136,65140>>, <<65142,65276>>, <<65296,65305>>,
       <<65313,65338>>, <<65345,65370>>, <<65382,65470>>, <<65474,65479>>, <<65482,65487>>, <<65490,65495>>,
       <<65498,65500>>, <<65536,65547>>, <<65549,65574>>, <<65576,65594>>, <<65596,65597>>, <<65599,65613>>,
       <<65616,65629>>, <<65664,65786>>, <<65799,65843>>, <<65856,65912>>, <<65930,65931>>, <<66176,66204>>,
       <<66208,66256>>, <<66273,66299>>, <<66304,66339>>, <<66349,66378>>, <<66384,66421>>, <<66432,66461>>,
       <<66464,66499>>, <<66504,66511>>, <<66513,66517>>, <<66560,66717>>, <<66720,66729>>, <<66736,66771>>,
       <<66776,66811>>, <<66816,66855>>, <<66864,66915>>, <<66928,66938>>, <<66940,66954>>, <<66956,66962>>,
       <<66964,66965>>, <<66967,66977>>, <<66979,66993>>, <<66995,67001>>, <<67003,67004>>, <<67072,67382>>,
       <<67392,67413>>, <<67424,67431>>, <<67456,67461>>, <<67463,67504>>, <<67506,67514>>, <<67584,67589>>,
       <<67592,67592>>, <<67594,67637>>, <<67639,67640>>, <<67644,67644>>, <<67647,67669>>, <<67672,67702>>,
       <<67705,67742>>, <<67751,67759>>, <<67808,67826>>, <<67828,67829>>, <<67835,67867>>, <<67872,67897>>,
       <<67968,68023>>, <<68028,68047>>, <<68050,68096>>, <<68112,68115>>, <<68117,68119>>, <<68121,68149>>,
       <<68160,68168>>, <<68192,68222>>, <<68224,68255>>, <<68288,68295>>, <<68297,68324>>, <<68331,68335>>,
       <<68352,68405>>, <<68416,68437>>, <<68440,68466>>, <<68472,68497>>, <<68521,68527>>, <<68608,68680>>,
       <<68736,68786>>, <<68800,68850>>, <<68858,68899>>, <<68912,68921>>, <<69216,69246>>, <<69248,69289>>,
       <<69296,69297>>, <<69376,69415>>, <<69424,69445>>, <<69457,69460>>, <<69488,69505>>, <<69552,69579>>,
       <<69600,69622>>, <<69635,69687>>, <<69714,69743>>, <<69745,69746>>, <<69749,69749>>, <<69763,69807>>,
       <<69840,69864>>, <<69872,69881>>, <<69891,69926>>, <<69942,69951>>, <<69956,69956>>, <<69959,69959>>,
       <<69968,70002>>, <<70006,70006>>, <<70019,70066>>, <<70081,70084>>, <<70096,70106>>, <<70108,70108>>,
       <<70113,70132>>, <<70144,70161>>, <<70163,70187>>, <<70272,70278>>, <<70280,70280>>, <<70282,70285>>,
       <<70287,70301>>, <<70303,70312>>, <<70320,70366>>, <<70384,70393>>, <<70405,70412>>, <<70415,70416>>,
       <<70419,70440>>, <<70442,70448>>, <<70450,70451>>, <<70453,70457>>, <<70461,70461>>, <<70480,70480>>,
       <<70493,70497>>, <<70656,70708>>, <<70727,70730>>, <<70736,70745>>, <<70751,70753>>, <<70784,70831>>,
       <<70852,70853>>, <<70855,70855>>, <<70864,70873>>, <<71040,71086>>, <<71128,71131>>, <<71168,71215>>,
       <<71236,71236>>, <<71248,71257>>, <<71296,71338>>, <<71352,71352>>, <<71360,71369>>, <<71424,71450>>,
       <<71472,71483>>, <<71488,71494>>, <<71680,71723>>, <<71840,71922>>, <<71935,71942>>, <<71945,71945>>,
       <<71948,71955>>, <<71957,71958>>, <<71960,71983>>, <<71999,71999>>, <<72001,72001>>, <<72016,72025>>,
       <<72096,72103>>, <<72106,72144>>, <<72161,72161>>, <<72163,72163>>, <<72192,72192>>, <<72203,72242>>,
       <<72250,72250>>, <<72272,72272>>, <<72284,72329>>, <<72349,72349>>, <<72368,72440>>, <<72704,72712>>,
       <<72714,72750>>, <<72768,72768>>, <<72784,72812>>, <<72818,72847>>, <<72960,72966>>, <<72968,72969>>,
       <<72971,73008>>, <<73030,73030>>, <<73040,73049>>, <<73056,73061>>, <<73063,73064>>, <<73066,73097>>,
       <<73112,73112>>, <<73120,73129>>, <<73440,73458>>, <<73648,73648>>, <<73664,73684>>, <<73728,74649>>,
       <<74752,74862>>, <<74880,75075>>, <<77712,77808>>, <<77824,78894>>, <<82944,83526>>, <<92160,92728>>,
       <<92736,92766>>, <<92768,92777>>, <<92784,92862>>, <<92864,92873>>, <<92880,92909>>, <<92928,92975>>,
       <<92992,92995>>, <<93008,93017>>, <<93019,93025>>, <<93027,93047>>, <<93053,93071>>, <<93760,93846>>,
       <<93952,94026>>, <<94032,94032>>, <<94099,94111>>, <<94176,94177>>, <<94179,94179>>, <<94208,100343>>,
       <<100352,101589>>, <<101632,101640>>, <<110576,110579>>, <<110581,110587>>, <<110589,110590>>, <<110592,110882>>,
       <<110928,110930>>, <<110948,110951>>, <<110960,111355>>, <<113664,113770>>, <<113776,113788>>, <<113792,113800>>,
       <<113808,113817>>, <<119520,119539>>, <<119648,119672>>, <<119808,119892>>, <<119894,119964>>, <<119966,119967>>,
       <<119970,119970>>, <<119973,119974>>, <<119977,119980>>, <<119982,119993>>, <<119995,119995>>, <<119997,120003>>,
       <<120005,120069>>, <<120071,120074>>, <<120077,120084>>, <<120086,120092>>, <<120094,120121>>, <<120123,120126>>,
       <<120128,120132>>, <<120134,120134>>, <<120138,120144>>, <<120146,120485>>, <<120488,120512>>, <<120514,120538>>,
       <<120540,120570>>, <<120572,120596>>, <<120598,120628>>, <<120630,120654>>, <<120656,120686>>, <<120688,120712>>,
       <<120714,120744>>, <<120746,120770>>, <<120772,120779>>, <<120782,120831>>, <<122624,122654>>, <<123136,123180>>,
       <<123191,123197>>, <<123200,123209>>, <<123214,123214>>, <<123536,123565>>, <<123584,123627>>, <<123632,123641>>,
       <<124896,124902>>, <<124904,124907>>, <<124909,124910>>, <<124912,124926>>, <<124928,125124>>, <<125127,125135>>,
       <<125184,125251>>, <<125259,125259>>, <<125264,125273>>, <<126065,126123>>, <<126125,126127>>, <<126129,126132>>,
       <<126209,126253>>, <<126255,126269>>, <<126464,126467>>, <<126469,126495>>, <<126497,126498>>, <<126500,126500>>,
       <<126503,126503>>, <<126505,126514>>, <<126516,126519>>, <<126521,126521>>, <<126523,126523>>, <<126530,126530>>,
       <<126535,126535>>, <<126537,126537>>, <<126539,126539>>, <<126541,126543>>, <<126545,126546>>, <<126548,126548>>,
       <<126551,126551>>, <<126553,126553>>, <<126555,126555>>, <<126557,126557>>, <<126559,126559>>, <<126561,126562>>,
       <<126564,126564>>, <<126567,126570>>, <<126572,126578>>, <<126580,126583>>, <<126585,126588>>, <<126590,126590>>,
       <<126592,126601>>, <<126603,126619>>, <<126625,126627>>, <<126629,126633>>, <<126635,126651>>, <<127232,127244>>,
       <<130032,130041>>, <<131072,173791>>, <<173824,177976>>, <<177984,178205>>, <<178208,183969>>, <<183984,191456>>,
       <<194560,195101>>, <<196608,201546>> >>

WordChar == InRanges(WordRanges)

\* What str.strip() and str.lstrip() remove: the characters of str.isspace.
Whitespace ==
    (9..13) \cup (28..32) \cup {133, 160, 5760} \cup (8192..8202)
        \cup {8232, 8233, 8239, 8287, 12288}

----------------------------------------------------------------------------
(* str methods.                                                            *)

RECURSIVE lstrip(_)
lstrip(s) ==
    IF s # <<>> /\ Head(s) \in Whitespace THEN lstrip(Tail(s)) ELSE s

RECURSIVE rstrip(_)
rstrip(s) ==
    IF s # <<>> /\ s[Len(s)] \in Whitespace
    THEN rstrip(SubSeq(s, 1, Len(s) - 1))
    ELSE s

strip(s) == rstrip(lstrip(s))

\* sub occurs in s at position i (1-based).
OccursAt(s, sub, i) ==
    /\ i >= 1
    /\ i + Len(sub) - 1 <= Len(s)
    /\ \A k \in 1..Len(sub) : s[i + k - 1] = sub[k]

\* Python's `sub in s`.
Contains(s, sub) == \E i \in 1..(Len(s) + 1) : OccursAt(s, sub, i)

\* Python's s.startswith(p).
StartsWith(s, p) == OccursAt(s, p, 1)

\* The least position at which sub occurs in s, or 0 when it does not.
FirstOccurrence(s, sub) ==
    IF Contains(s, sub)
    THEN CHOOSE i \in 1..(Len(s) + 1) :
            OccursAt(s, sub, i) /\ \A k \in 1..(i - 1) : ~OccursAt(s, sub, k)
    ELSE 0

\* Python's s.replace(old, new) for a non-empty old: leftmost occurrences,
\* not overlapping, left to right.
RECURSIVE Replace(_, _, _)
Replace(s, old, new) ==
    LET i == FirstOccurrence(s, old) IN
    IF i = 0 THEN s
    ELSE SubSeq(s, 1, i - 1) \o new
           \o Replace(SubSeq(s, i + Len(old), Len(s)), old, new)

\* The decimal digits of a natural number, as f"{n}" formats it.
RECURSIVE ToDec(_)
ToDec(n) ==
    IF n < 10 THEN <<Ord("0") + n>>
    ELSE ToDec(n \div 10) \o <<Ord("0") + (n % 10)>>

----------------------------------------------------------------------------
(* The module's constants.                                                 *)

DEFAULT_PREFIX_WHITELIST ==
    << Chars(<<"z","e","d","/","c","r","a","t","e","s","/","a","s","s","i","s","t","a","n","t","/","s","r","c","/">>),
       Chars(<<"z","e","d","/","c","r","a","t","e","s","/","a","s","s","i","s","t","a","n","t","2","/","s","r","c","/">>),
       Chars(<<"z","e","d","/","c","r","a","t","e","s","/","c","o","l","l","a","b","_","u","i","/","s","r","c","/">>),
       Chars(<<"z","e","d","/","c","r","a","t","e","s","/","w","o","r","k","s","p","a","c","e","/","s","r","c","/">>),
       Chars(<<"z","e","d","/","c","r","a","t","e","s","/","p","r","o","j","e","c","t","_","p","a","n","e","l","/","s","r","c","/">>),
       Chars(<<"z","e","d","/","c","r","a","t","e","s","/","s","e","a","r","c","h","/","s","r","c","/">>),
       Chars(<<"z","e","d","/","c","r","a","t","e","s","/","f","i","l","e","_","f","i","n","d","e","r","/","s","r","c","/">>),
       Chars(<<"z","e","d","/","c","r","a","t","e","s","/","d","i","a","g","n","o","s","t","i","c","s","/","s","r","c","/">>),
       Chars(<<"z","e","d","/","c","r","a","t","e","s","/","t","a","s","k","s","_","u","i","/","s","r","c","/">>),
       Chars(<<"z","e","d","/","c","r","a","t","e","s","/","z","e","d","/","s","r","c","/">>) >>

SAFE_SINGLE_WORDS ==
    { Chars(<<"O","K">>),
      Chars(<<"O","k">>),
      Chars(<<"C","a","n","c","e","l">>),
      Chars(<<"S","e","a","r","c","h">>),
      Chars(<<"F","i","n","d">>),
      Chars(<<"R","e","p","l","a","c","e">>),
      Chars(<<"P","r","e","f","e","r","e","n","c","e","s">>),
      Chars(<<"H","e","l","p">>),
      Chars(<<"A","b","o","u","t">>),
      Chars(<<"Y","e","s">>),
      Chars(<<"N","o">>) }

\* The substrings _is_high_risk looks for (lines 97, 103 and 110).
URL_MARK == Chars(<<":","/","/">>)

MAILTO == Chars(<<"m","a","i","l","t","o",":">>)

ARROWS == { Chars(<<":",":">>), Chars(<<"-",">">>), Chars(<<"=",">">>) }

ONE_SPACE == Chars(<<" ">>)

\* The head and the tail of a mask token (lines 120, 129 and 134).
PH_HEAD == Chars(<<"_","_","P","H">>)

PH_TAIL == Chars(<<"_","_">>)

\* The length above which _is_high_risk rejects a string.
MaxTextLen == 180

----------------------------------------------------------------------------
(* The regular expressions, each as the match the code asks of it.         *)

\* _RE_IDENTIFIER.fullmatch(t): ^[a-z0-9_.:/\\-]+$
IdentifierChar ==
    Lower \cup AsciiDigit
        \cup {Ord("_"), Ord("."), Ord(":"), Ord("/"), Ord("\\"), Ord("-")}

RE_IDENTIFIER_fullmatch(t) ==
    /\ Len(t) >= 1
    /\ \A i \in 1..Len(t) : t[i] \in IdentifierChar

\* [\\/] and [:?!]
Separators == {Ord("\\"), Ord("/")}

FormatMarks == {Ord(":"), Ord("?"), Ord("!")}

\* _RE_FILELIKE.search(t): [\\/].+\.[A-Za-z0-9]{1,6}$
\* A separator at i, at least one character that is no newline, a dot at d,
\* then one to six ASCII alphanumerics up to the end of the string (or up to
\* a final newline, which $ also accepts).
FileLikeEndingAt(t, e) ==
    \E d \in (e - 6)..(e - 1) :
        /\ d >= 3
        /\ t[d] = DOT
        /\ \A k \in (d + 1)..e : t[k] \in (AsciiLetter \cup AsciiDigit)
        /\ \E i \in 1..(d - 2) :
              /\ t[i] \in Separators
              /\ \A k \in (i + 1)..(d - 1) : t[k] # LF

RE_FILELIKE_search(t) ==
    \/ FileLikeEndingAt(t, Len(t))
    \/ (Len(t) >= 1 /\ t[Len(t)] = LF /\ FileLikeEndingAt(t, Len(t) - 1))

\* The least j >= i with s[j] a closing brace, or 0 when there is none.
FirstClose(s, i) ==
    IF \E j \in i..Len(s) : s[j] = RBRACE
    THEN CHOOSE j \in i..Len(s) :
            s[j] = RBRACE /\ \A k \in i..(j - 1) : s[k] # RBRACE
    ELSE 0

\* _RE_DEBUG_FMT.search(t): \{[^}]*[:?!][^}]*\}
\* An opening brace at i, and one of : ? ! before the first closing brace
\* after it.
RE_DEBUG_FMT_search(t) ==
    \E i \in 1..Len(t) :
        /\ t[i] = LBRACE
        /\ LET j == FirstClose(t, i + 1) IN
              /\ j # 0
              /\ \E k \in (i + 1)..(j - 1) : t[k] \in FormatMarks

\* _RE_CAMEL_NO_SPACE.fullmatch(t): ^[A-Za-z0-9_]+$
RE_CAMEL_NO_SPACE_fullmatch(t) ==
    /\ Len(t) >= 1
    /\ \A i \in 1..Len(t) : t[i] \in (AsciiLetter \cup AsciiDigit \cup {UNDERSCORE})

\* _RE_PUNCT_ONLY.fullmatch(t): ^\W+$
RE_PUNCT_ONLY_fullmatch(t) ==
    /\ Len(t) >= 1
    /\ \A i \in 1..Len(t) : t[i] \notin WordChar

\* _RE_NUMBER_ONLY.fullmatch(t): ^\d+(?:\.\d+)?$
AllDigits(t, a, b) == a <= b /\ \A i \in a..b : t[i] \in Digit

RE_NUMBER_ONLY_fullmatch(t) ==
    \/ AllDigits(t, 1, Len(t))
    \/ \E d \in 1..Len(t) :
          /\ t[d] = DOT
          /\ AllDigits(t, 1, d - 1)
          /\ AllDigits(t, d + 1, Len(t))

----------------------------------------------------------------------------
(* The classification helpers.                                             *)

_uppercase_start(s) ==
    LET t == lstrip(s) IN t # <<>> /\ t[1] \in Upper

_contains_letters(s) == \E i \in 1..Len(s) : s[i] \in AsciiLetter

_is_high_risk(text) ==
    LET t == strip(text) IN
    IF t = <<>> THEN TRUE
    ELSE IF Len(t) > MaxTextLen THEN TRUE
    ELSE IF Contains(t, URL_MARK)
            \/ StartsWith(t, MAILTO) THEN TRUE
    ELSE IF RE_FILELIKE_search(t) THEN TRUE
    ELSE IF RE_IDENTIFIER_fullmatch(t) THEN TRUE
    ELSE IF \E x \in ARROWS : Contains(t, x)
         THEN TRUE
    ELSE IF RE_DEBUG_FMT_search(t) THEN TRUE
    ELSE IF RE_PUNCT_ONLY_fullmatch(t) \/ RE_NUMBER_ONLY_fullmatch(t) THEN TRUE
    ELSE IF /\ ~Contains(t, ONE_SPACE)
            /\ RE_CAMEL_NO_SPACE_fullmatch(t)
            /\ \E i \in 1..Len(t) : t[i] \in Lower
            /\ \E i \in 1..Len(t) : t[i] \in Upper
         THEN TRUE
    ELSE FALSE

_path_whitelisted(file_path, prefixes) ==
    \E i \in 1..Len(prefixes) : StartsWith(file_path, prefixes[i])

----------------------------------------------------------------------------
(* Placeholder masking.                                                    *)

\* The mask token f"__PH{i}__".
Token(i) == PH_HEAD \o ToDec(i) \o PH_TAIL

\* The number of digits of s from position i on.
RECURSIVE DigitRun(_, _)
DigitRun(s, i) ==
    IF i <= Len(s) /\ s[i] \in Digit THEN 1 + DigitRun(s, i + 1) ELSE 0

\* The length of the match of _RE_PLACEHOLDERS that starts at position i,
\* 0 when none does:  \{[^}]*\}  |  %\d*\$?[a-zA-Z]  |  \$\{[^}]+\}
PlaceholderLenAt(s, i) ==
    IF s[i] = LBRACE THEN
        LET j == FirstClose(s, i + 1) IN IF j = 0 THEN 0 ELSE j - i + 1
    ELSE IF s[i] = PERCENT THEN
        LET p == i + 1 + DigitRun(s, i + 1)
            q == IF p <= Len(s) /\ s[p] = DOLLAR THEN p + 1 ELSE p
        IN  IF q <= Len(s) /\ s[q] \in AsciiLetter THEN q - i + 1 ELSE 0
    ELSE IF s[i] = DOLLAR /\ i + 1 <= Len(s) /\ s[i + 1] = LBRACE THEN
        LET j == FirstClose(s, i + 2) IN IF j >= i + 3 THEN j - i + 1 ELSE 0
    ELSE 0

\* The least position j >= i at which a placeholder starts, or 0.
NextPlaceholder(s, i) ==
    IF \E j \in i..Len(s) : PlaceholderLenAt(s, j) > 0
    THEN CHOOSE j \in i..Len(s) :
            /\ PlaceholderLenAt(s, j) > 0
            /\ \A k \in i..(j - 1) : PlaceholderLenAt(s, k) = 0
    ELSE 0

\* _RE_PLACEHOLDERS.sub(repl, text) from position i on, with the
\* placeholders found so far: matches are taken leftmost first and do not
\* overlap; repl appends the match and returns its token.
RECURSIVE MaskFrom(_, _, _)
MaskFrom(s, i, phs) ==
    LET j == NextPlaceholder(s, i) IN
    IF j = 0 THEN [masked |-> SubSeq(s, i, Len(s)), placeholders |-> phs]
    ELSE LET n == PlaceholderLenAt(s, j)
             rest == MaskFrom(s, j + n, Append(phs, SubSeq(s, j, j + n - 1)))
         IN  [masked |-> SubSeq(s, i, j - 1) \o Token(Len(phs)) \o rest.masked,
              placeholders |-> rest.placeholders]

_mask_placeholders(text) == MaskFrom(text, 1, <<>>)

\* The loop of _unmask_placeholders from placeholder i (1-based) on.
RECURSIVE UnmaskFrom(_, _, _, _)
UnmaskFrom(out, text, placeholders, i) ==
    IF i > Len(placeholders)
    THEN [ok |-> ~Contains(out, PH_HEAD), text |-> out]
    ELSE IF ~Contains(out, Token(i - 1))
         THEN [ok |-> FALSE, text |-> text]
         ELSE UnmaskFrom(Replace(out, Token(i - 1), placeholders[i]),
                         text, placeholders, i + 1)

_unmask_placeholders(text, placeholders) ==
    UnmaskFrom(text, text, placeholders, 1)

\* re.search of the CJK range on the unmasked text, line 257.
HasChinese(s) == \E i \in 1..Len(s) : s[i] \in CJK

----------------------------------------------------------------------------
(* JSON values of the translation map.                                     *)

Null == [kind |-> "null", s |-> <<>>]

Str(s) == [kind |-> "str", s |-> s]

\* `v is None or v == ""` (line 218), `translated in (None, "")` (line 224).
IsEmptyTranslation(v) == v.kind = "null" \/ (v.kind = "str" /\ v.s = <<>>)

\* One top-level item of the document: a file path and its value, which is
\* a dict of original -> translated (items, in document order) or not.
File(path, items) == [path |-> path, isdict |-> TRUE, items |-> items]

NonDictFile(path) == [path |-> path, isdict |-> FALSE, items |-> <<>>]

Entry(key, value) == [key |-> key, value |-> value]

----------------------------------------------------------------------------
(* Bounds of the model and the inputs drawn within them.                   *)

\* --max ranges over 0..MaxMax.
MaxMax == 2

\* The longest mapping built from MultiKeys.
MaxEntries == 2

\* A translation: one character of the CJK range.
ZH == <<20013>> (* "\u4e2d" *)

\* "A b b ... b" of n characters, neither end blank (n odd), and "Ab b ... b"
\* (n even).
Padded(n) ==
    IF n % 2 = 1
    THEN [i \in 1..n |->
            IF i = 1 THEN Ord("A") ELSE IF i % 2 = 0 THEN SPACE ELSE Ord("b")]
    ELSE <<Ord("A")>>
           \o [i \in 1..(n - 1) |-> IF i % 2 = 0 THEN SPACE ELSE Ord("b")]

\* One character more than _is_high_risk accepts, and exactly as many.
LongKey == Padded(MaxTextLen + 1)

EdgeKey == Padded(MaxTextLen)

\* Originals that reach the translation step at least in some run.
PlainKeys ==
    { Chars(<<"O","p","e","n"," ","f","i","l","e">>), Chars(<<"S","a","v","e"," ","{","x","}">>), Chars(<<"S","a","v","e"," ","{","y","}">>), Chars(<<"O","K">>), Chars(<<"o","p","e","n"," ","i","t">>),
      Chars(<<" ","Q","u","i","t"," ","n","o","w">>), <<12288,81,117,105,116,32,105,116>> (* "\u3000Quit it" *), <<67,97,102,233,32,109,101,110,117>> (* "Caf\xe9 menu" *),
      Chars(<<"A","d","d"," ","%","1","$","s">>), <<65,100,100,32,37,1635,100>> (* "Add %\u0663d" *), Chars(<<"U","s","e"," ","$","{","v","}">>), Chars(<<"A"," ","{","_","_","P","H","1","_","_","}"," ","{","x","}">>),
      Chars(<<"I","s"," ","_","_","P","H","0","_","_">>), EdgeKey }

\* Originals of each kind the risk filter names.
RiskyKeys ==
    { Chars(<<" "," ">>), LongKey, Chars(<<"S","e","e"," ","h","t","t","p",":","/","/","a">>), Chars(<<"m","a","i","l","t","o",":","a"," ","b">>), Chars(<<"I","n"," ","a","/","b",".","r","s">>),
      Chars(<<"f","o","o","_","b","a","r">>), Chars(<<"A",":",":","b"," ","c">>), Chars(<<"A"," ","-",">"," ","b">>), Chars(<<"A"," ","=",">"," ","b">>), Chars(<<"G","o","t"," ","{",":","?","}">>),
      Chars(<<"F","o","o","B","a","r">>), Chars(<<"C","a","n","c","e","l">>), Chars(<<"O","k">>), Chars(<<"Y","e","s">>) }

\* Originals without an ASCII letter.
LetterlessKeys == { <<>>, Chars(<<"4","2">>), Chars(<<"?","!">>), ZH, <<1635>> (* "\u0663" *), <<233,160>> (* "\xe9\xa0" *) }

KeyPool == PlainKeys \cup RiskyKeys \cup LetterlessKeys

\* Originals combined into longer mappings.
MultiKeys == { Chars(<<"O","p","e","n"," ","f","i","l","e">>), Chars(<<"S","a","v","e"," ","{","x","}">>), Chars(<<"C","a","n","c","e","l">>) }

OldValue == Str(<<25991>> (* "\u6587" *))

ValuePool == { Str(<<>>), Null, OldValue }

PathA == Chars(<<"z","e","d","/","c","r","a","t","e","s","/","z","e","d","/","s","r","c","/","a",".","r","s">>)

PathB == Chars(<<"z","e","d","/","c","r","a","t","e","s","/","s","e","a","r","c","h","/","s","r","c","/","b",".","r","s">>)

PathC == Chars(<<"z","e","d","/","c","r","a","t","e","s","/","e","d","i","t","o","r","/","s","r","c","/","c",".","r","s">>)

\* Mappings of n entries with distinct keys from MultiKeys.
RECURSIVE MultiMappings(_)
MultiMappings(n) ==
    IF n = 0 THEN { <<>> }
    ELSE { Append(m, Entry(k, v)) :
             m \in MultiMappings(n - 1), k \in MultiKeys, v \in { Str(<<>>), OldValue } }

DistinctKeys(m) ==
    \A i \in 1..Len(m) : \A j \in 1..Len(m) : i # j => m[i].key # m[j].key

\* The documents a run starts from: one file with one entry, any original
\* and any value; one whitelisted file with a longer mapping; and two files,
\* the first of a few kinds, the second whitelisted.
SingleDocs ==
    { << File(p, << Entry(k, v) >>) >> :
        p \in { PathA, PathC }, k \in KeyPool, v \in ValuePool }

MultiDocs ==
    { << File(PathA, m) >> :
        m \in { mm \in UNION { MultiMappings(n) : n \in 2..MaxEntries } :
                  DistinctKeys(mm) } }

LeadFiles ==
    { NonDictFile(PathA),
      File(PathC, << Entry(Chars(<<"O","p","e","n"," ","f","i","l","e">>), Str(<<>>)), Entry(Chars(<<"C","l","o","s","e">>), Null),
                     Entry(Chars(<<"U","n","d","o">>), OldValue) >>),
      File(PathA, << Entry(Chars(<<"C","l","o","s","e"," ","t","a","b">>), OldValue) >>),
      File(PathA, << Entry(Chars(<<"O","p","e","n"," ","f","i","l","e">>), Str(<<>>)) >>),
      File(PathA, << Entry(Chars(<<"S","a","v","e"," ","{","y","}">>), Null) >>) }

PairDocs ==
    { << f, File(PathB, << Entry(k, Str(<<>>)) >>) >> :
        f \in LeadFiles, k \in MultiKeys }

Docs == SingleDocs \cup MultiDocs \cup PairDocs

\* The paths --input and --output may name.
FsPaths == { "in.json", "out.json" }

\* --prefix: absent, or given once.
PrefixArgs == { <<>>, << Chars(<<"z","e","d","/","c","r","a","t","e","s","/","e","d","i","t","o","r","/">>) >> }

ArgsSet ==
    [ input : { "in.json" },
      output : FsPaths,
      max : 0..MaxMax,
      require_uppercase_start : BOOLEAN,
      prefix : PrefixArgs ]

\* What the translation service may answer to a request for text m: an
\* exception, or a text: nothing, blanks, m untranslated, m translated with
\* every token kept (also padded with blanks), the translation alone, with
\* a token lost, or with a stray token prefix.
RaisedReply == [raised |-> TRUE, text |-> <<>>]

TextReply(s) == [raised |-> FALSE, text |-> s]

ServiceReplies(m) ==
    { RaisedReply } \cup
    { TextReply(s) : s \in
        { <<>>,
          <<SPACE, LF>>,
          m,
          ZH \o m,
          <<12288>> (* "\u3000" *) \o ZH \o m \o <<LF>>,
          ZH,
          ZH \o Replace(m, Token(1), <<>>),
          ZH \o m \o PH_HEAD } }

----------------------------------------------------------------------------
(* The state of one run of main.                                           *)

VARIABLES
    args,      \* the parsed command line
    fs,        \* the file system: path -> [exists, data]
    fs0,       \* the file system when the run started
    data,      \* the document loaded at line 203, updated in place
    stats,     \* the Stats counters
    filled,    \* the local counter of line 208
    cache,     \* the translation cache: masked text -> translation
    calls,     \* the requests made to the translation service, in order
    log,       \* what the run decided for each empty entry, in order
    pc,        \* where main is
    fi,        \* position of the outer loop (file)
    ei,        \* position of the inner loop (entry)
    attempt,   \* the attempt of _translate_with_retries under way
    cur        \* masked text, placeholders and translation of the entry

vars == <<args, fs, fs0, data, stats, filled, cache, calls, log, pc, fi, ei,
          attempt, cur>>

\* range(3) at line 163.
MaxAttempts == 3

NoFile == [exists |-> FALSE, data |-> <<>>]

NoCur == [masked |-> <<>>, placeholders |-> <<>>, out |-> <<>>]

Stats0 ==
    [ scanned_empty |-> 0, eligible |-> 0, filled |-> 0,
      skipped_high_risk |-> 0, skipped_not_whitelisted |-> 0,
      skipped_not_uiish |-> 0, skipped_translation_failed |-> 0,
      skipped_no_chinese |-> 0 ]

\* prefixes = args.prefix or list(DEFAULT_PREFIX_WHITELIST), line 200.
Prefixes(a) == IF a.prefix # <<>> THEN a.prefix ELSE DEFAULT_PREFIX_WHITELIST

\* The filters of lines 229-243 applied to one empty entry.
Classify_NoRiskCheck(src, require) ==
    IF ~_contains_letters(src) THEN "no_letters"
    ELSE IF require /\ ~(_uppercase_start(src) \/ strip(src) \in SAFE_SINGLE_WORDS)
         THEN "not_uiish"
    ELSE "eligible"

Classify(src, require) ==
    IF ~_contains_letters(src) THEN "no_letters"
    ELSE IF _is_high_risk(src) THEN "high_risk"
    ELSE IF require /\ ~(_uppercase_start(src) \/ strip(src) \in SAFE_SINGLE_WORDS)
         THEN "not_uiish"
    ELSE "eligible"

\* The test of line 224 that leaves an entry alone.
KeepsTranslation_Never(translated) == FALSE

KeepsTranslation(translated) == ~IsEmptyTranslation(translated)

TheFile == data[fi]

TheEntry == data[fi].items[ei]

Logged(outcome, out) ==
    Append(log, [fi |-> fi, ei |-> ei, outcome |-> outcome, out |-> out])

Init ==
    /\ args \in ArgsSet
    /\ \E d \in Docs :
          fs = [p \in FsPaths |->
                  IF p = args.input THEN [exists |-> TRUE, data |-> d]
                  ELSE NoFile]
    /\ fs0 = fs
    /\ data = <<>>
    /\ stats = Stats0
    /\ filled = 0
    /\ cache = <<>>
    /\ calls = <<>>
    /\ log = <<>>
    /\ pc = "start"
    /\ fi = 0
    /\ ei = 0
    /\ attempt = 0
    /\ cur = NoCur

\* Lines 202-208: load the document.
ReadInput ==
    /\ pc = "start"
    /\ data' = fs[args.input].data
    /\ fi' = 1
    /\ pc' = "file"
    /\ UNCHANGED <<args, fs, fs0, stats, filled, cache, calls, log, ei,
                   attempt, cur>>

\* Line 211, the outer loop is exhausted.
FilesDone ==
    /\ pc = "file"
    /\ fi > Len(data)
    /\ pc' = "write"
    /\ UNCHANGED <<args, fs, fs0, data, stats, filled, cache, calls, log, fi,
                   ei, attempt, cur>>

\* Lines 212-213.
SkipNonDict ==
    /\ pc = "file"
    /\ fi <= Len(data)
    /\ ~TheFile.isdict
    /\ fi' = fi + 1
    /\ UNCHANGED <<args, fs, fs0, data, stats, filled, cache, calls, log, pc,
                   ei, attempt, cur>>

\* Lines 215-221: count the empties of a file that is not whitelisted.
SkipNotWhitelisted ==
    /\ pc = "file"
    /\ fi <= Len(data)
    /\ TheFile.isdict
    /\ ~_path_whitelisted(TheFile.path, Prefixes(args))
    /\ LET n == Cardinality({ i \in 1..Len(TheFile.items) :
                               IsEmptyTranslation(TheFile.items[i].value) })
       IN  stats' = [stats EXCEPT !.scanned_empty = @ + n,
                                  !.skipped_not_whitelisted = @ + n]
    /\ fi' = fi + 1
    /\ UNCHANGED <<args, fs, fs0, data, filled, cache, calls, log, pc, ei,
                   attempt, cur>>

\* Line 223: enter the inner loop of a whitelisted file.
EnterFile ==
    /\ pc = "file"
    /\ fi <= Len(data)
    /\ TheFile.isdict
    /\ _path_whitelisted(TheFile.path, Prefixes(args))
    /\ ei' = 1
    /\ pc' = "entry"
    /\ UNCHANGED <<args, fs, fs0, data, stats, filled, cache, calls, log, fi,
                   attempt, cur>>

\* The inner loop is exhausted; lines 268-269 then end the outer loop too
\* when the limit is reached.
EntriesDone ==
    /\ pc = "entry"
    /\ ei > Len(TheFile.items)
    /\ IF filled >= args.max
       THEN pc' = "write" /\ fi' = fi
       ELSE pc' = "file" /\ fi' = fi + 1
    /\ UNCHANGED <<args, fs, fs0, data, stats, filled, cache, calls, log, ei,
                   attempt, cur>>

\* Lines 224-225.
SkipTranslated ==
    /\ pc = "entry"
    /\ ei <= Len(TheFile.items)
    /\ KeepsTranslation(TheEntry.value)
    /\ ei' = ei + 1
    /\ UNCHANGED <<args, fs, fs0, data, stats, filled, cache, calls, log, pc,
                   fi, attempt, cur>>

\* Lines 227-236: an empty entry the risk filter rejects.
SkipHighRisk ==
    /\ pc = "entry"
    /\ ei <= Len(TheFile.items)
    /\ ~KeepsTranslation(TheEntry.value)
    /\ LET c == Classify(TheEntry.key, args.require_uppercase_start) IN
          /\ c \in {"no_letters", "high_risk"}
          /\ log' = Logged(c, <<>>)
    /\ stats' = [stats EXCEPT !.scanned_empty = @ + 1,
                              !.skipped_high_risk = @ + 1]
    /\ ei' = ei + 1
    /\ UNCHANGED <<args, fs, fs0, data, filled, cache, calls, pc, fi, attempt,
                   cur>>

\* Lines 227-241: an empty entry the UI-ish filter rejects.
SkipNotUiish ==
    /\ pc = "entry"
    /\ ei <= Len(TheFile.items)
    /\ ~KeepsTranslation(TheEntry.value)
    /\ Classify(TheEntry.key, args.require_uppercase_start) = "not_uiish"
    /\ stats' = [stats EXCEPT !.scanned_empty = @ + 1,
                              !.skipped_not_uiish = @ + 1]
    /\ log' = Logged("not_uiish", <<>>)
    /\ ei' = ei + 1
    /\ UNCHANGED <<args, fs, fs0, data, filled, cache, calls, pc, fi, attempt,
                   cur>>

\* Lines 227-246 and 156-157: an eligible entry is masked and the cache
\* answers for its masked text.
TranslateFromCache ==
    /\ pc = "entry"
    /\ ei <= Len(TheFile.items)
    /\ ~KeepsTranslation(TheEntry.value)
    /\ Classify(TheEntry.key, args.require_uppercase_start) = "eligible"
    /\ LET mp == _mask_placeholders(TheEntry.key) IN
          /\ mp.masked \in DOMAIN cache
          /\ cur' = [masked |-> mp.masked, placeholders |-> mp.placeholders,
                     out |-> cache[mp.masked]]
    /\ stats' = [stats EXCEPT !.scanned_empty = @ + 1, !.eligible = @ + 1]
    /\ pc' = "unmask"
    /\ UNCHANGED <<args, fs, fs0, data, filled, cache, calls, log, fi, ei,
                   attempt>>

\* Lines 227-246 and 156-163: an eligible entry is masked and its masked
\* text is not in the cache: the attempts begin.
TranslateBegin ==
    /\ pc = "entry"
    /\ ei <= Len(TheFile.items)
    /\ ~KeepsTranslation(TheEntry.value)
    /\ Classify(TheEntry.key, args.require_uppercase_start) = "eligible"
    /\ LET mp == _mask_placeholders(TheEntry.key) IN
          /\ mp.masked \notin DOMAIN cache
          /\ cur' = [masked |-> mp.masked, placeholders |-> mp.placeholders,
                     out |-> <<>>]
    /\ stats' = [stats EXCEPT !.scanned_empty = @ + 1, !.eligible = @ + 1]
    /\ attempt' = 0
    /\ pc' = "attempt"
    /\ UNCHANGED <<args, fs, fs0, data, filled, cache, calls, log, fi, ei>>

\* What an attempt makes of the service's reply: (out or "").strip(), and
\* nothing when the call raised.
ReplyText(r) == IF r.raised THEN <<>> ELSE strip(r.text)

\* Lines 164-169: an attempt returns a translation, which is cached.
AttemptSucceeds ==
    /\ pc = "attempt"
    /\ \E r \in ServiceReplies(cur.masked) :
          /\ ReplyText(r) # <<>>
          /\ cache' = [t \in (DOMAIN cache) \cup {cur.masked} |->
                         IF t = cur.masked THEN ReplyText(r) ELSE cache[t]]
          /\ cur' = [cur EXCEPT !.out = ReplyText(r)]
    /\ calls' = Append(calls, [fi |-> fi, ei |-> ei, text |-> cur.masked])
    /\ pc' = "unmask"
    /\ UNCHANGED <<args, fs, fs0, data, stats, filled, log, fi, ei, attempt>>

\* Lines 164-173: an attempt raises or returns nothing, and another follows.
AttemptFails ==
    /\ pc = "attempt"
    /\ attempt + 1 < MaxAttempts
    /\ \E r \in ServiceReplies(cur.masked) : ReplyText(r) = <<>>
    /\ calls' = Append(calls, [fi |-> fi, ei |-> ei, text |-> cur.masked])
    /\ attempt' = attempt + 1
    /\ UNCHANGED <<args, fs, fs0, data, stats, filled, cache, log, pc, fi, ei,
                   cur>>

\* Lines 164-175 and 247-249: the last attempt fails too.
AttemptsExhausted ==
    /\ pc = "attempt"
    /\ attempt + 1 = MaxAttempts
    /\ \E r \in ServiceReplies(cur.masked) : ReplyText(r) = <<>>
    /\ calls' = Append(calls, [fi |-> fi, ei |-> ei, text |-> cur.masked])
    /\ stats' = [stats EXCEPT !.skipped_translation_failed = @ + 1]
    /\ log' = Logged("translation_failed", <<>>)
    /\ ei' = ei + 1
    /\ pc' = "entry"
    /\ UNCHANGED <<args, fs, fs0, data, filled, cache, fi, attempt, cur>>

\* Lines 251-254: a mask token is missing from the translation, or one
\* remains after unmasking.
UnmaskFails ==
    /\ pc = "unmask"
    /\ ~_unmask_placeholders(cur.out, cur.placeholders).ok
    /\ stats' = [stats EXCEPT !.skipped_translation_failed = @ + 1]
    /\ log' = Logged("unmask_failed", cur.out)
    /\ ei' = ei + 1
    /\ pc' = "entry"
    /\ UNCHANGED <<args, fs, fs0, data, filled, cache, calls, fi, attempt, cur>>

\* Lines 256-259.
SkipNoChinese ==
    /\ pc = "unmask"
    /\ LET u == _unmask_placeholders(cur.out, cur.placeholders) IN
          u.ok /\ ~HasChinese(strip(u.text))
    /\ stats' = [stats EXCEPT !.skipped_no_chinese = @ + 1]
    /\ log' = Logged("no_chinese", cur.out)
    /\ ei' = ei + 1
    /\ pc' = "entry"
    /\ UNCHANGED <<args, fs, fs0, data, filled, cache, calls, fi, attempt, cur>>

\* Lines 261-269: the entry is filled; both loops end when the limit is
\* reached.
Fill ==
    /\ pc = "unmask"
    /\ LET u == _unmask_placeholders(cur.out, cur.placeholders) IN
          /\ u.ok
          /\ HasChinese(strip(u.text))
          /\ data' = [data EXCEPT ![fi].items[ei].value = Str(strip(u.text))]
    /\ filled' = filled + 1
    /\ stats' = [stats EXCEPT !.filled = @ + 1]
    /\ log' = Logged("filled", cur.out)
    /\ IF filled + 1 >= args.max
       THEN pc' = "write" /\ ei' = ei
       ELSE pc' = "entry" /\ ei' = ei + 1
    /\ UNCHANGED <<args, fs, fs0, cache, calls, fi, attempt, cur>>

\* Lines 271-273: the document is written to --output.
WriteOutput ==
    /\ pc = "write"
    /\ fs' = [fs EXCEPT ![args.output] = [exists |-> TRUE, data |-> data]]
    /\ pc' = "done"
    /\ UNCHANGED <<args, fs0, data, stats, filled, cache, calls, log, fi, ei,
                   attempt, cur>>

Next ==
    \/ ReadInput
    \/ FilesDone
    \/ SkipNonDict
    \/ SkipNotWhitelisted
    \/ EnterFile
    \/ EntriesDone
    \/ SkipTranslated
    \/ SkipHighRisk
    \/ SkipNotUiish
    \/ TranslateFromCache
    \/ TranslateBegin
    \/ AttemptSucceeds
    \/ AttemptFails
    \/ AttemptsExhausted
    \/ UnmaskFails
    \/ SkipNoChinese
    \/ Fill
    \/ WriteOutput

Spec == Init /\ [][Next]_vars

----------------------------------------------------------------------------
(* The claims.                                                             *)

\* The document as it was read, before the run changed anything.
InputDoc == fs0[args.input].data

\* The positions (file, entry) of the document.
Positions ==
    UNION { { <<f, e>> : e \in 1..Len(InputDoc[f].items) } :
              f \in 1..Len(InputDoc) }

InputEntry(p) == InputDoc[p[1]].items[p[2]]

\* The value the run holds for position p, and the value it wrote.
HeldValue(p) == data[p[1]].items[p[2]].value

WrittenValue(p) == fs[args.output].data[p[1]].items[p[2]].value

\* A mask token __PH<digits>__ occurs in s.
HasMaskToken(s) ==
    \E i \in 1..Len(s) :
        \E n \in 1..Len(s) :
            /\ OccursAt(s, PH_HEAD, i)
            /\ \A k \in (i + 4)..(i + 3 + n) : k <= Len(s) /\ s[k] \in AsciiDigit
            /\ OccursAt(s, PH_TAIL, i + 4 + n)

\* C1: the number of entries filled during one run (stats.filled) never
\* exceeds --max, for every --max >= 0; with --max 0 nothing is filled.
C1_FilledWithinMax == stats.filled <= args.max

\* C2: an empty entry of a whitelisted file whose stripped original is one
\* of SAFE_SINGLE_WORDS is eligible: neither the risk filter nor the UI-ish
\* filter skips it, with or without --require-uppercase-start.
C2_SafeWordsEligible ==
    \A i \in 1..Len(log) :
        LET key == InputDoc[log[i].fi].items[log[i].ei].key IN
        strip(key) \in SAFE_SINGLE_WORDS
            => log[i].outcome \notin {"no_letters", "high_risk", "not_uiish"}

\* C3: a run never mutates the input: the content of the file --input names
\* is after the run what it was before, for every pair of --input and
\* --output.
C3_InputUnchanged == fs[args.input] = fs0[args.input]

\* C4: for every entry a run fills, every placeholder that
\* _mask_placeholders extracts from the original occurs verbatim in the
\* value written and no mask token remains in it; and an entry whose
\* returned translation has lost a mask token is left empty.
C4_PlaceholdersPreserved ==
    \A i \in 1..Len(log) :
        LET p == <<log[i].fi, log[i].ei>>
            phs == _mask_placeholders(InputEntry(p).key).placeholders
        IN  /\ log[i].outcome = "filled" =>
                /\ \A n \in 1..Len(phs) : Contains(HeldValue(p).s, phs[n])
                /\ ~HasMaskToken(HeldValue(p).s)
            /\ (/\ log[i].outcome \in {"filled", "no_chinese", "unmask_failed"}
                /\ \E n \in 1..Len(phs) : ~Contains(log[i].out, Token(n - 1)))
                   => log[i].outcome # "filled" /\ HeldValue(p) = InputEntry(p).value

\* C5: for every empty entry whose original is classified high-risk or has
\* no ASCII letter, the translation service is never called and the value,
\* in the run and in the output written, is still the empty one.
C5_HighRiskNeverTranslated ==
    pc # "start" =>
        \A p \in Positions :
            (/\ IsEmptyTranslation(InputEntry(p).value)
             /\ (_is_high_risk(InputEntry(p).key)
                    \/ ~_contains_letters(InputEntry(p).key)))
            => /\ \A c \in 1..Len(calls) : <<calls[c].fi, calls[c].ei>> # p
               /\ HeldValue(p) = InputEntry(p).value
               /\ (pc = "done" => WrittenValue(p) = InputEntry(p).value)

\* C5 witness: a finished run that skipped a high-risk empty entry of a
\* whitelisted file and filled another entry.
C5_Witness ==
    /\ pc = "done"
    /\ stats.filled >= 1
    /\ \E i \in 1..Len(log) :
          /\ log[i].outcome = "high_risk"
          /\ _is_high_risk(InputDoc[log[i].fi].items[log[i].ei].key)

\* C6: every entry whose input value is neither "" nor None has the same
\* value during the run and in the output written, whatever the
\* translation service returns.
C6_OnlyEmptyFilled ==
    pc # "start" =>
        /\ Len(data) = Len(InputDoc)
        /\ \A p \in Positions :
              LET v == InputEntry(p).value IN
              ~(v.kind = "null" \/ (v.kind = "str" /\ v.s = <<>>))
              => /\ HeldValue(p) = v
                 /\ (pc = "done" => WrittenValue(p) = v)

\* C6 witness: a finished run over a whitelisted file that filled an entry
\* and passed over an entry already translated, whose original is eligible.
C6_Witness ==
    /\ pc = "done"
    /\ stats.filled >= 1
    /\ \E p \in Positions :
          /\ ~IsEmptyTranslation(InputEntry(p).value)
          /\ Classify(InputEntry(p).key, args.require_uppercase_start) = "eligible"
          /\ _path_whitelisted(InputDoc[p[1]].path, Prefixes(args))
          /\ \E i \in 1..Len(log) : log[i].fi = p[1] /\ log[i].outcome = "filled"

====
